---- MODULE Spec2Model ----
(***************************************************************************)
(* Model of the keyword clustering pipeline (controller/app_controller.py, *)
(* core/data_cleaner.py, core/clusterizer.py, core/data_loader.py).        *)
(*                                                                         *)
(* A Python str is a sequence of one-character strings, so that lower(),   *)
(* split(), strip(), `in` (substring) and sorted() are computed the way    *)
(* Python computes them.  A dict is a sequence of [key, items] entries in  *)
(* insertion order.  The external libraries (spaCy NER, the sentence       *)
(* encoder, sklearn KMeans) are nondeterministic choices over the results  *)
(* they can return.                                                        *)
(***************************************************************************)
EXTENDS Integers, Sequences, FiniteSets, TLC

\* --------------------------------------------------------------- bounds
\* Longest phrase list handed to the controller.
MaxPhrases == 3
\* Largest inertia value KMeans reports (inertias range over 0..MaxInertia).
MaxInertia == 1

\* ------------------------------------------------------ Python strings
None == "None"

\* An attribute that is None or a dict: no element while it is None, else
\* the dict (a dict and the string None cannot be compared).
NoDict == <<>>
SomeDict(d) == <<d>>

\* str.lower() on one character of the model's alphabet.
LowerChar(c) ==
    IF c = "B" THEN "b" ELSE IF c = "C" THEN "c" ELSE c

\* str.lower()
Lower(str) == [i \in 1..Len(str) |-> LowerChar(str[i])]

\* Unicode code point of a character of the model's alphabet (ord()).
Ord(c) ==
    CASE c = " " -> 32
      [] c = "/" -> 47
      [] c = "B" -> 66
      [] c = "C" -> 67
      [] c = "a" -> 97
      [] c = "b" -> 98
      [] c = "c" -> 99
      [] c = "s" -> 115

\* str.isspace() on one character.
IsSpace(c) == c = " "

\* \w of the re module, and str.isalnum(), on one character.
IsWordChar(c) == c \in {"B", "C", "a", "b", "c", "s"}

\* str.isalnum(): non-empty and every character alphanumeric.
IsAlnum(str) == Len(str) > 0 /\ \A i \in 1..Len(str) : IsWordChar(str[i])

\* str.strip() is truthy iff the string has a non-whitespace character.
StripTruthy(str) == \E i \in 1..Len(str) : ~IsSpace(str[i])

\* `sub in str` for Python strings: literal, case-sensitive substring.
Contains(str, sub) ==
    \E i \in 0..(Len(str) - Len(sub)) :
        \A j \in 1..Len(sub) : str[i + j] = sub[j]

\* Python's `<` on strings: lexicographic by code point.
RECURSIVE StrLess(_, _)
StrLess(x, y) ==
    IF Len(y) = 0 THEN FALSE
    ELSE IF Len(x) = 0 THEN TRUE
    ELSE IF Ord(Head(x)) < Ord(Head(y)) THEN TRUE
    ELSE IF Ord(Head(x)) > Ord(Head(y)) THEN FALSE
    ELSE StrLess(Tail(x), Tail(y))

\* Maximal runs of characters satisfying / not satisfying a class, left to
\* right: str.split() keeps the runs of non-whitespace, re.findall(r"\b\w+\b")
\* the runs of word characters.
RECURSIVE Runs(_, _, _)
Runs(str, wordOnly, cur) ==
    IF Len(str) = 0 THEN (IF Len(cur) > 0 THEN <<cur>> ELSE <<>>)
    ELSE LET c == Head(str)
             keep == IF wordOnly THEN IsWordChar(c) ELSE ~IsSpace(c)
         IN IF keep THEN Runs(Tail(str), wordOnly, Append(cur, c))
            ELSE (IF Len(cur) > 0 THEN <<cur>> ELSE <<>>)
                 \o Runs(Tail(str), wordOnly, <<>>)

\* str.split() with no argument.
Split(str) == Runs(str, FALSE, <<>>)

\* re.findall(r"\b\w+\b", str)
FindWords(str) == Runs(str, TRUE, <<>>)

\* " ".join(words) and " / ".join(words)
RECURSIVE Join(_, _)
Join(sep, words) ==
    IF Len(words) = 0 THEN <<>>
    ELSE IF Len(words) = 1 THEN words[1]
    ELSE words[1] \o sep \o Join(sep, Tail(words))

\* sorted(words): stable insertion sort by StrLess.
RECURSIVE InsertSorted(_, _)
InsertSorted(w, sorted) ==
    IF Len(sorted) = 0 THEN <<w>>
    ELSE IF StrLess(w, Head(sorted)) THEN <<w>> \o sorted
    ELSE <<Head(sorted)>> \o InsertSorted(w, Tail(sorted))

RECURSIVE Sorted(_)
Sorted(words) ==
    IF Len(words) = 0 THEN <<>>
    ELSE InsertSorted(words[Len(words)], Sorted(SubSeq(words, 1, Len(words) - 1)))

\* Sequence helpers.
Range(seq) == {seq[i] : i \in 1..Len(seq)}

RECURSIVE Filter(_, _)
Filter(seq, keepSet) ==
    IF Len(seq) = 0 THEN <<>>
    ELSE (IF Head(seq) \in keepSet THEN <<Head(seq)>> ELSE <<>>)
         \o Filter(Tail(seq), keepSet)

RECURSIVE Concat(_)
Concat(seqs) ==
    IF Len(seqs) = 0 THEN <<>> ELSE Head(seqs) \o Concat(Tail(seqs))

\* ---------------------------------------------------------- normalizer
\* nltk's English stop words that can be written in the model's alphabet.
StopWords == {<<"a">>, <<"a", "s">>, <<"s">>}

\* WordNet nouns of the model's vocabulary, and WordNetLemmatizer.lemmatize
\* (noun): the plural "s" is detached when the stem is a WordNet noun (the
\* shortest known form is returned), any other word is returned as it is.
Lexicon == {<<"c", "a", "b">>}

Lemmatize(word) ==
    IF Len(word) > 1 /\ word[Len(word)] = "s"
       /\ SubSeq(word, 1, Len(word) - 1) \in Lexicon
    THEN SubSeq(word, 1, Len(word) - 1)
    ELSE word

\* nltk.word_tokenize on text whose punctuation stands between spaces.
WordTokenize(str) == Split(str)

RECURSIVE LemmatizedWords(_)
LemmatizedWords(words) ==
    IF Len(words) = 0 THEN <<>>
    ELSE (IF IsAlnum(Head(words)) /\ Head(words) \notin StopWords
          THEN <<Lemmatize(Head(words))>> ELSE <<>>)
         \o LemmatizedWords(Tail(words))

\* RemoveDuplicates._lemmatize_phrase
LemmatizePhrase(phrase) ==
    Join(<<" ">>, LemmatizedWords(WordTokenize(Lower(phrase))))

\* The signature computed in the loop of RemoveDuplicates.delete.
Signature(phrase) ==
    LemmatizePhrase(Join(<<" ">>, Sorted(Split(Lower(phrase)))))

\* ------------------------------------------------------- data_loader
\* LoadData.data is None, a DataFrame (its columns, each the list of its
\* non-null values) or a list.
NotLoaded == [kind |-> "None", columns |-> <<>>, rows |-> <<>>]
DataFrame(columns) == [kind |-> "DataFrame", columns |-> columns, rows |-> <<>>]
ListData(rows) == [kind |-> "list", columns |-> <<>>, rows |-> rows]

\* A load that keeps the path as its text when the file is missing.
LoadDataFromFileLoadKeepsPath(filepath, fs) ==
    IF filepath \in DOMAIN fs
    THEN DataFrame(<<fs[filepath]>>)
    ELSE ListData(<<filepath>>)

\* LoadDataFromFile.load: pd.read_csv, FileNotFoundError leaves data None.
LoadDataFromFileLoad(filepath, fs) ==
    IF filepath \in DOMAIN fs THEN DataFrame(<<fs[filepath]>>) ELSE NotLoaded

\* LoadDataAsText.load
LoadDataAsTextLoad(raw_text) == ListData(raw_text)

\* LoadData.to_list(column=0): iloc[:, 0] of a frame without columns raises
\* IndexError, which is caught.
ToList(loaded) ==
    IF loaded.kind = "None" THEN <<>>
    ELSE IF loaded.kind = "DataFrame"
    THEN (IF Len(loaded.columns) = 0 THEN <<>> ELSE loaded.columns[1])
    ELSE IF loaded.kind = "list" THEN loaded.rows
    ELSE <<>>

\* ------------------------------------------------------- data_cleaner
\* Variant of DedupLoop that compares lower-cased phrases, not signatures:
\* C7 tells it from the code.
RECURSIVE DedupLoopRaw(_, _)
DedupLoopRaw(phrases, acc) ==
    IF Len(phrases) = 0 THEN acc
    ELSE LET lowered == Lower(Head(phrases))
         IN DedupLoopRaw(Tail(phrases),
                IF lowered \notin acc.seen
                THEN [kept |-> Append(acc.kept, Head(phrases)),
                      removed |-> acc.removed,
                      seen |-> acc.seen \cup {lowered}]
                ELSE [kept |-> acc.kept,
                      removed |-> Append(acc.removed, Head(phrases)),
                      seen |-> acc.seen])

\* RemoveDuplicates.delete: [kept, removed, seen] after the phrases seen so far.
RECURSIVE DedupLoop(_, _)
DedupLoop(phrases, acc) ==
    IF Len(phrases) = 0 THEN acc
    ELSE LET lemmatized == Signature(Head(phrases))
         IN DedupLoop(Tail(phrases),
                IF lemmatized \notin acc.seen
                THEN [kept |-> Append(acc.kept, Head(phrases)),
                      removed |-> acc.removed,
                      seen |-> acc.seen \cup {lemmatized}]
                ELSE [kept |-> acc.kept,
                      removed |-> Append(acc.removed, Head(phrases)),
                      seen |-> acc.seen])

RemoveDuplicatesDelete(phrases) ==
    LET r == DedupLoop(phrases, [kept |-> <<>>, removed |-> <<>>, seen |-> {}])
    IN <<r.kept, r.removed>>

\* The list comprehension `[word for word in words if word.strip()]`.
NonBlank(words) == Filter(words, {w \in Range(words) : StripTruthy(w)})

\* `any(word in phrase for word in trash_words)`
HasTrash(phrase, trash) == \E i \in 1..Len(trash) : Contains(phrase, trash[i])

\* Variant of RemoveTrashPhrase.delete that tests only `if not trash_words`:
\* C9 tells it from the code.
RemoveTrashPhraseDeleteUngated(phrases, trash) ==
    IF Len(trash) = 0 THEN <<phrases, <<>>>>
    ELSE <<Filter(phrases, {p \in Range(phrases) : ~HasTrash(p, trash)}),
           Filter(phrases, {p \in Range(phrases) : HasTrash(p, trash)})>>

\* RemoveTrashPhrase.delete
RemoveTrashPhraseDelete(phrases, trash) ==
    IF Len(NonBlank(trash)) = 0 THEN <<phrases, <<>>>>
    ELSE <<Filter(phrases, {p \in Range(phrases) : ~HasTrash(p, trash)}),
           Filter(phrases, {p \in Range(phrases) : HasTrash(p, trash)})>>

\* ------------------------------------------------------------- dicts
\* A dict is a sequence of [key, items] entries in insertion order.
DictKeys(d) == {d[i].key : i \in 1..Len(d)}

DictHas(d, k) == k \in DictKeys(d)

DictIndex(d, k) == CHOOSE i \in 1..Len(d) : d[i].key = k

DictGet(d, k) == d[DictIndex(d, k)].items

\* d[k] = v
DictSet(d, k, v) ==
    IF DictHas(d, k)
    THEN [d EXCEPT ![DictIndex(d, k)] = [key |-> k, items |-> v]]
    ELSE Append(d, [key |-> k, items |-> v])

\* d.setdefault(k, []).append(x), and defaultdict(list)[k].append(x)
DictAppend(d, k, x) ==
    IF DictHas(d, k)
    THEN [d EXCEPT ![DictIndex(d, k)].items = Append(@, x)]
    ELSE Append(d, [key |-> k, items |-> <<x>>])

\* list(chain.from_iterable(d.values())), as the set its `in` tests read.
DictValues(d) == UNION {Range(d[i].items) : i \in 1..Len(d)}

\* ------------------------------------------------------- clusterizer
\* Bucket-size filter of ClusterByEntity.cluster: 1 < len(value) < 40.
MinBucketExclusive == 1
MaxBucketExclusive == 40
\* Counter(all_words).most_common(3)
TopWordCount == 3

\* Variant of the inner loop that keys the bucket by the lowercased entity
\* text: C22 tells it from the code.
RECURSIVE AddEntitiesLowerKey(_, _, _, _, _)
AddEntitiesLowerKey(buckets, phrase, ents, entities, stop) ==
    IF Len(ents) = 0 THEN buckets
    ELSE AddEntitiesLowerKey(
            IF Head(ents).label \in Range(entities)
               /\ Lower(Head(ents).text) \notin Range(stop)
            THEN DictAppend(buckets, Lower(Head(ents).text), phrase)
            ELSE buckets,
            phrase, Tail(ents), entities, stop)

\* The inner loop over doc.ents for one phrase.
RECURSIVE AddEntities(_, _, _, _, _)
AddEntities(buckets, phrase, ents, entities, stop) ==
    IF Len(ents) = 0 THEN buckets
    ELSE AddEntities(
            IF Head(ents).label \in Range(entities)
               /\ Lower(Head(ents).text) \notin Range(stop)
            THEN DictAppend(buckets, Head(ents).text, phrase)
            ELSE buckets,
            phrase, Tail(ents), entities, stop)

\* The loop "Create clusters using entity list"; ner[phrase] is doc.ents.
\* (The test on Len(next) makes TLC evaluate the dict of one iteration
\* before it starts the next, which keeps long lists within its stack.)
RECURSIVE EntityBuckets(_, _, _, _, _)
EntityBuckets(buckets, phrases, entities, stop, ner) ==
    IF Len(phrases) = 0 THEN buckets
    ELSE LET next == IF Len(Head(phrases)) = 0 THEN buckets
                     ELSE AddEntities(buckets, Head(phrases),
                                      ner[Head(phrases)], entities, stop)
         IN IF Len(next) < 0 THEN next
            ELSE EntityBuckets(next, Tail(phrases), entities, stop, ner)

\* Variant of the size filter that keeps a bucket of 40: C11 tells it from
\* the code.
RECURSIVE FilterBucketsInclusive(_)
FilterBucketsInclusive(buckets) ==
    IF Len(buckets) = 0 THEN <<>>
    ELSE (IF MinBucketExclusive < Len(Head(buckets).items)
             /\ Len(Head(buckets).items) <= MaxBucketExclusive
          THEN <<Head(buckets)>> ELSE <<>>)
         \o FilterBucketsInclusive(Tail(buckets))

\* "Filter clusters: min 2 phrases, max 40".
RECURSIVE FilterBuckets(_)
FilterBuckets(buckets) ==
    IF Len(buckets) = 0 THEN <<>>
    ELSE (IF MinBucketExclusive < Len(Head(buckets).items)
             /\ Len(Head(buckets).items) < MaxBucketExclusive
          THEN <<Head(buckets)>> ELSE <<>>)
         \o FilterBuckets(Tail(buckets))

\* Variant of the back-fill test that compares the texts as written: C21
\* tells it from the code.
RECURSIVE BackFillPhraseCased(_, _, _)
BackFillPhraseCased(buckets, phrase, i) ==
    IF i > Len(buckets) THEN buckets
    ELSE BackFillPhraseCased(
            IF Contains(phrase, buckets[i].key)
               /\ phrase \notin Range(buckets[i].items)
            THEN [buckets EXCEPT ![i].items = Append(@, phrase)]
            ELSE buckets,
            phrase, i + 1)

\* The inner loop of the back-fill pass for one phrase, over the keys
\* buckets[i..] (the keys do not change during the pass).
RECURSIVE BackFillPhrase(_, _, _)
BackFillPhrase(buckets, phrase, i) ==
    IF i > Len(buckets) THEN buckets
    ELSE BackFillPhrase(
            IF Contains(Lower(phrase), Lower(buckets[i].key))
               /\ phrase \notin Range(buckets[i].items)
            THEN [buckets EXCEPT ![i].items = Append(@, phrase)]
            ELSE buckets,
            phrase, i + 1)

\* "Add phrases to clusters if they contain entity in text".
RECURSIVE BackFill(_, _)
BackFill(buckets, phrases) ==
    IF Len(phrases) = 0 THEN buckets
    ELSE LET next == BackFillPhrase(buckets, Head(phrases), 1)
         IN IF Len(next) < 0 THEN next
            ELSE BackFill(next, Tail(phrases))

\* [item for item in phrases if item not in chain(d.values())]
NotIn(phrases, d) ==
    Filter(phrases, {p \in Range(phrases) : p \notin DictValues(d)})

\* Variant of the gates that tests only the label list: C10 tells it from
\* the code.
EntityGateClosedOnLabelsOnly(entities, stop) ==
    Len(entities) = 0

\* True when ClusterByEntity.cluster returns at one of its two gates.
EntityGateClosed(entities, stop) ==
    Len(NonBlank(stop)) = 0 \/ Len(entities) = 0

\* The phrases ClusterByEntity.cluster hands to nlp, in order: none when it
\* returns at a gate, otherwise every non-empty phrase.
NlpCalls(phrases, entities, stop) ==
    IF EntityGateClosed(entities, stop) THEN <<>>
    ELSE Filter(phrases, {p \in Range(phrases) : Len(p) > 0})

\* Variant of ClusterByEntity.cluster that returns the unclustered list
\* computed before the back-fill: C4 tells it from the code.
ClusterByEntityClusterStale(phrases, entities, stop, ner) ==
    IF EntityGateClosed(entities, stop)
    THEN [clusters |-> <<>>, left |-> phrases,
          nlp_calls |-> NlpCalls(phrases, entities, stop),
          entity_cluster |-> <<>>]
    ELSE LET entity_cluster ==
                 EntityBuckets(<<>>, phrases, entities, stop, ner)
             filtered == FilterBuckets(entity_cluster)
             phrases_without_entities == NotIn(phrases, filtered)
             filled == BackFill(filtered, phrases_without_entities)
         IN [clusters |-> filled, left |-> phrases_without_entities,
             nlp_calls |-> NlpCalls(phrases, entities, stop),
             entity_cluster |-> entity_cluster]

\* ClusterByEntity.cluster; ner[phrase] is what nlp(phrase).ents returns.
\* entity_cluster is the defaultdict before the size filter.
ClusterByEntityCluster(phrases, entities, stop, ner) ==
    IF EntityGateClosed(entities, stop)
    THEN [clusters |-> <<>>, left |-> phrases,
          nlp_calls |-> NlpCalls(phrases, entities, stop),
          entity_cluster |-> <<>>]
    ELSE LET entity_cluster ==
                 EntityBuckets(<<>>, phrases, entities, stop, ner)
             filtered == FilterBuckets(entity_cluster)
             phrases_without_entities == NotIn(phrases, filtered)
             filled == BackFill(filtered, phrases_without_entities)
         IN [clusters |-> filled, left |-> NotIn(phrases, filled),
             nlp_calls |-> NlpCalls(phrases, entities, stop),
             entity_cluster |-> entity_cluster]

\* Variant of the inner loop that matches case-sensitively: C13 tells it
\* from the code.
RECURSIVE KeysPhraseCased(_, _, _)
KeysPhraseCased(clusters, phrase, keys) ==
    IF Len(keys) = 0 THEN clusters
    ELSE KeysPhraseCased(
            IF Contains(phrase, Head(keys))
            THEN DictAppend(clusters, Head(keys), phrase)
            ELSE clusters,
            phrase, Tail(keys))

\* The loops of ClusterByUserKeys.cluster.
RECURSIVE KeysPhrase(_, _, _)
KeysPhrase(clusters, phrase, keys) ==
    IF Len(keys) = 0 THEN clusters
    ELSE KeysPhrase(
            IF Contains(Lower(phrase), Lower(Head(keys)))
            THEN DictAppend(clusters, Head(keys), phrase)
            ELSE clusters,
            phrase, Tail(keys))

RECURSIVE KeysLoop(_, _, _)
KeysLoop(clusters, phrases, keys) ==
    IF Len(phrases) = 0 THEN clusters
    ELSE KeysLoop(KeysPhrase(clusters, Head(phrases), keys), Tail(phrases), keys)

\* Variant of ClusterByUserKeys.cluster that tests only `if not my_keys`:
\* C12 tells it from the code.
ClusterByUserKeysClusterUngated(phrases, clusters, keys) ==
    IF Len(keys) = 0 THEN [clusters |-> clusters, left |-> phrases]
    ELSE LET out == KeysLoop(clusters, phrases, keys)
         IN [clusters |-> out, left |-> NotIn(phrases, out)]

\* ClusterByUserKeys.cluster
ClusterByUserKeysCluster(phrases, clusters, keys) ==
    IF Len(NonBlank(keys)) = 0 THEN [clusters |-> clusters, left |-> phrases]
    ELSE LET out == KeysLoop(clusters, phrases, keys)
         IN [clusters |-> out, left |-> NotIn(phrases, out)]

\* Twice np.gradient(x) for len(x) >= 2 (unit spacing): one-sided differences
\* at the two ends, central differences (x[i+1] - x[i-1]) / 2 inside.
Gradient2(x) ==
    [i \in 1..Len(x) |->
        IF i = 1 THEN 2 * (x[2] - x[1])
        ELSE IF i = Len(x) THEN 2 * (x[Len(x)] - x[Len(x) - 1])
        ELSE x[i + 1] - x[i - 1]]

\* np.argmax(g): the 0-based index of the first maximal entry.
ArgMax(g) ==
    (CHOOSE i \in 1..Len(g) :
        /\ \A j \in 1..Len(g) : g[j] <= g[i]
        /\ \A j \in 1..(i - 1) : g[j] < g[i]) - 1

\* optimal_k = np.argmax(np.gradient(inertias)) + min_clusters
OptimalK(inertias, min_clusters) == ArgMax(Gradient2(inertias)) + min_clusters

\* The words of a cluster: re.findall over each lowercased phrase, stop
\* words dropped.
RECURSIVE AllWords(_)
AllWords(phrases) ==
    IF Len(phrases) = 0 THEN <<>>
    ELSE LET words == FindWords(Lower(Head(phrases)))
         IN Filter(words, Range(words) \ StopWords) \o AllWords(Tail(phrases))

CountOf(words, w) == Cardinality({i \in 1..Len(words) : words[i] = w})

FirstIndex(words, w) == CHOOSE i \in 1..Len(words) :
    words[i] = w /\ \A j \in 1..(i - 1) : words[j] # w

\* Counter(words).most_common(n): by count, ties in order of first occurrence.
RECURSIVE MostCommon(_, _, _)
MostCommon(words, left, n) ==
    IF n = 0 \/ left = {} THEN <<>>
    ELSE LET best == CHOOSE w \in left : \A v \in left :
                        \/ CountOf(words, v) < CountOf(words, w)
                        \/ /\ CountOf(words, v) = CountOf(words, w)
                           /\ FirstIndex(words, w) <= FirstIndex(words, v)
         IN <<best>> \o MostCommon(words, left \ {best}, n - 1)

\* " / ".join(top_words)
ClusterName(phrases_in_cluster) ==
    LET words == AllWords(phrases_in_cluster)
    IN Join(<<" ", "/", " ">>, MostCommon(words, Range(words), TopWordCount))

\* Variant of clustered_phrases that appends a phrase under its label and
\* under every smaller label: C5 tells it from the code.
RECURSIVE AppendUpTo(_, _, _)
AppendUpTo(acc, label, phrase) ==
    IF label < 0 THEN acc
    ELSE DictAppend(AppendUpTo(acc, label - 1, phrase), label, phrase)

RECURSIVE ClusteredPhrasesCumulative(_, _, _)
ClusteredPhrasesCumulative(acc, labels, phrases) ==
    IF Len(phrases) = 0 THEN acc
    ELSE ClusteredPhrasesCumulative(AppendUpTo(acc, Head(labels), Head(phrases)),
                                    Tail(labels), Tail(phrases))

\* clustered_phrases: for label, phrase in zip(labels, phrases).
RECURSIVE ClusteredPhrases(_, _, _)
ClusteredPhrases(acc, labels, phrases) ==
    IF Len(phrases) = 0 THEN acc
    ELSE ClusteredPhrases(DictAppend(acc, Head(labels), Head(phrases)),
                          Tail(labels), Tail(phrases))

\* The name given to one entry of clustered_phrases.
NameOf(label, phrases_in_cluster) ==
    IF label = -1 THEN <<"N", "o", " ", "c", "l", "u", "s", "t", "e", "r",
                         " ", "c", "h", "o", "s", "e", "n">>
    ELSE ClusterName(phrases_in_cluster)

\* Variant of the final loop that extends the list of an existing key
\* instead of replacing it: C16 tells it from the code.
RECURSIVE MergeClustersUnion(_, _)
MergeClustersUnion(clusters, clustered) ==
    IF Len(clustered) = 0 THEN clusters
    ELSE LET name == NameOf(Head(clustered).key, Head(clustered).items)
         IN MergeClustersUnion(
               DictSet(clusters, name,
                       (IF DictHas(clusters, name)
                        THEN DictGet(clusters, name) ELSE <<>>)
                       \o Head(clustered).items),
               Tail(clustered))

\* The final loop: self.clusters[name] = phrases_in_cluster.
RECURSIVE MergeClusters(_, _)
MergeClusters(clusters, clustered) ==
    IF Len(clustered) = 0 THEN clusters
    ELSE MergeClusters(
            DictSet(clusters,
                    NameOf(Head(clustered).key, Head(clustered).items),
                    Head(clustered).items),
            Tail(clustered))

\* ClusterUsingKMeans.cluster after kmeans.fit_predict returned `labels`.
ClusterUsingKMeansCluster(phrases, clusters, labels) ==
    IF Len(phrases) = 0 THEN clusters
    ELSE MergeClusters(clusters, ClusteredPhrases(<<>>, labels, phrases))

\* The checks of ClusterUsingKMeans.__init__ on the bounds.
BoundsRejected(min_clusters, max_clusters) ==
    min_clusters < 1 \/ max_clusters < 1 \/ min_clusters > max_clusters

\* ------------------------------------------------------------ inputs
\* "Cab / bb", "cab cab bb", "bb", "bb a cabs", "cab": phrases with a case
\* variant, punctuation, a repeated word, a stop word and a plural.  The
\* first and the fourth have the same signature.
PhraseUniverse ==
    { <<"C", "a", "b", " ", "/", " ", "b", "b">>,
      <<"c", "a", "b", " ", "c", "a", "b", " ", "b", "b">>,
      <<"b", "b">>,
      <<"b", "b", " ", "a", " ", "c", "a", "b", "s">>,
      <<"c", "a", "b">> }

\* Lists of at most n elements of a set.
SeqsUpTo(set, n) == UNION {[1..k -> set] : k \in 0..n}

\* NoWords is the list [""] that "".split(",") gives for an entry field
\* left empty.  trash_words: [], [""], [" "], ["Cab"], ["Cab", " "].
NoWords == << <<>> >>
TrashChoices ==
    { <<>>, NoWords, << <<" ">> >>, << <<"C", "a", "b">> >>,
      << <<"C", "a", "b">>, <<" ">> >> }

\* (entities, stop_entity): the ticked spaCy labels and the stop list.
\* Closed by the label list, closed by the stop list, and open with the stop
\* entity "bb" (ConfigClean has both lists empty).
EntityChoices ==
    { << <<>>, << <<"b", "b">> >> >>,
      << <<"GPE">>, NoWords >>,
      << <<"GPE">>, << <<"b", "b">> >> >> }
\* The labels spaCy may report.
NerLabels == {"GPE", "ORG"}

\* my_keys: [""], ["cab / bb"], ["BB", "cab"]
KeyChoices ==
    { NoWords,
      << <<"c", "a", "b", " ", "/", " ", "b", "b">> >>,
      << <<"B", "B">>, <<"c", "a", "b">> >> }

\* (min_num_clusters, max_num_clusters)
BoundChoices == { <<1, 1>>, <<1, 2>>, <<2, 3>>, <<2, 1>> }

\* What nlp(phrase).ents can be: no entity, one word of the phrase under
\* either label, or every word of the phrase as a GPE, in text order (a
\* word being alphanumeric and no stop word).
RECURSIVE AsEntities(_, _)
AsEntities(words, label) ==
    IF Len(words) = 0 THEN <<>>
    ELSE <<[text |-> Head(words), label |-> label]>>
         \o AsEntities(Tail(words), label)

NerOutcomes(phrase) ==
    LET words == Filter(Split(phrase),
                        {w \in Range(Split(phrase)) :
                            IsAlnum(w) /\ Lower(w) \notin StopWords})
    IN {<<>>}
       \cup {<<[text |-> w, label |-> l]>> : w \in Range(words), l \in NerLabels}
       \cup {AsEntities(words, "GPE")}

\* The deterministic spaCy pipeline as a function of the phrase: every
\* assignment of one outcome to each phrase of the set.
RECURSIVE NerChoices(_)
NerChoices(phrases) ==
    IF phrases = {} THEN {<<>>}
    ELSE LET p == CHOOSE x \in phrases : TRUE
         IN {(p :> o) @@ f : o \in NerOutcomes(p), f \in NerChoices(phrases \ {p})}

\* The label vectors fit_predict can return for n distinct points and k
\* clusters: every cluster is used.
LabelChoices(n, k) ==
    {f \in [1..n -> 0..(k - 1)] : \A l \in 0..(k - 1) : \E i \in 1..n : f[i] = l}

\* The K values of the elbow loop, min_clusters..max_clusters in order.
Candidates(min_clusters, max_clusters) ==
    [i \in 1..(max_clusters - min_clusters + 1) |-> min_clusters + i - 1]

\* Variant of ClusterUsingKMeans.cluster without the early return on an
\* empty phrase list: C14 tells it from the code.
KMeansOutcomesNoEarlyReturn(phrases, clusters, min_clusters, max_clusters) ==
    IF BoundsRejected(min_clusters, max_clusters)
    THEN {[raised |-> "bounds", fits |-> <<>>]}
    ELSE IF max_clusters > Len(phrases)
    THEN {[raised |-> "n_clusters",
           fits |-> Candidates(min_clusters,
                       IF Len(phrases) + 1 < min_clusters
                       THEN min_clusters ELSE Len(phrases) + 1)]}
    ELSE IF min_clusters = max_clusters
    THEN {[raised |-> "gradient",
           fits |-> Candidates(min_clusters, max_clusters)]}
    ELSE {[clusters |-> ClusterUsingKMeansCluster(phrases, clusters, labels),
           fits |-> Candidates(min_clusters, max_clusters),
           inertias |-> inertias,
           optimal_k |-> OptimalK(inertias, min_clusters),
           labels |-> labels] :
             <<inertias, labels>> \in
                UNION {{<<x, l>> :
                          l \in LabelChoices(Len(phrases),
                                             OptimalK(x, min_clusters))} :
                       x \in [1..(max_clusters - min_clusters + 1)
                                -> 0..MaxInertia]}}

\* ClusterUsingKMeans(phrases, clusters, min, max).cluster(): what the
\* call can do.  `fits` are the K values KMeans was fitted with in the
\* elbow loop; KMeans.fit raises when K exceeds the number of phrases, and
\* np.gradient raises on a single inertia.
KMeansOutcomes(phrases, clusters, min_clusters, max_clusters) ==
    IF BoundsRejected(min_clusters, max_clusters)
    THEN {[raised |-> "bounds", fits |-> <<>>]}
    ELSE IF Len(phrases) = 0
    THEN {[clusters |-> clusters, fits |-> <<>>, inertias |-> <<>>,
           optimal_k |-> 0, labels |-> <<>>]}
    ELSE IF max_clusters > Len(phrases)
    THEN {[raised |-> "n_clusters",
           fits |-> Candidates(min_clusters,
                       IF Len(phrases) + 1 < min_clusters
                       THEN min_clusters ELSE Len(phrases) + 1)]}
    ELSE IF min_clusters = max_clusters
    THEN {[raised |-> "gradient",
           fits |-> Candidates(min_clusters, max_clusters)]}
    ELSE {[clusters |-> ClusterUsingKMeansCluster(phrases, clusters, labels),
           fits |-> Candidates(min_clusters, max_clusters),
           inertias |-> inertias,
           optimal_k |-> OptimalK(inertias, min_clusters),
           labels |-> labels] :
             <<inertias, labels>> \in
                UNION {{<<x, l>> :
                          l \in LabelChoices(Len(phrases),
                                             OptimalK(x, min_clusters))} :
                       x \in [1..(max_clusters - min_clusters + 1)
                                -> 0..MaxInertia]}}

\* ------------------------------------------------------- controller
VARIABLES
    row_data, trash_words, entities, stop_entity, my_keys,
    min_num_clusters, max_num_clusters,   \* ControllerConfig
    loader,                               \* the class of Controller.loader
    files,                                \* path -> rows of the CSV at it
    log_queue,                            \* Controller.log_queue
    log_window,                           \* the text of the process window
    result_window,                        \* what the result window was given
    clusters,                             \* Controller.clusters
    pc,                                   \* position in run_pipeline
    data, local_clusters,                 \* locals of run_pipeline
    calls,                                \* the stage calls made so far
    results                               \* what each stage returned

config == <<row_data, trash_words, entities, stop_entity, my_keys,
            min_num_clusters, max_num_clusters, loader, files>>
vars == <<row_data, trash_words, entities, stop_entity, my_keys,
          min_num_clusters, max_num_clusters, loader, files,
          log_queue, log_window, result_window, clusters, pc,
          data, local_clusters, calls, results>>

Stages == <<"load_data", "remove_duplicates", "remove_trash",
            "cluster_by_entity", "cluster_by_user_keys",
            "cluster_using_kmeans">>

\* Controller.log
Log(queue, messages) == queue \o messages

Msg(text, n) == [text |-> text, n |-> n]

\* The configurations of the three specifications: each varies the
\* parameters of some stages and leaves the other stages at rest.
\* Trash words varied; no entity label, no stop entity, no user key.
ConfigClean ==
    /\ trash_words \in TrashChoices
    /\ entities = <<>> /\ stop_entity = NoWords /\ my_keys = NoWords
    /\ min_num_clusters = 1 /\ max_num_clusters = 2

\* Entity labels, stop entities and user keys varied; no trash word.
ConfigEntity ==
    /\ trash_words = <<>>
    /\ \E e \in EntityChoices : entities = e[1] /\ stop_entity = e[2]
    /\ my_keys \in KeyChoices
    /\ min_num_clusters = 1 /\ max_num_clusters = 2

\* User keys and cluster bounds varied; no trash word, no entity label.
ConfigKMeans ==
    /\ trash_words = <<>>
    /\ entities = <<>> /\ stop_entity = NoWords
    /\ my_keys \in KeyChoices
    /\ \E b \in BoundChoices :
         min_num_clusters = b[1] /\ max_num_clusters = b[2]

\* The result window before check_thread_completion has built it.
NotBuilt == [built |-> FALSE]

\* Controller.__init__ after it chose the loader.
Attributes ==
    /\ log_queue = <<>>
    /\ log_window = <<>>
    /\ result_window = NotBuilt
    /\ clusters = NoDict
    /\ pc = "load_data"
    /\ data = None
    /\ local_clusters = None
    /\ calls = <<>>
    /\ results = <<>>

\* Controller.__init__ on a ControllerConfig whose row_data is a list.
Constructed ==
    /\ row_data \in SeqsUpTo(PhraseUniverse, MaxPhrases)
    /\ loader = "LoadDataAsText"
    /\ files = <<>>
    /\ Attributes

\* The paths a configuration may name, and what the file system holds:
\* no file at all, or a CSV file at the path whose first column holds the
\* given values.
Paths == {<<"c", "a", "b", "/", "s">>}
FileSystems ==
    {<<>>} \cup {(p :> rows) : p \in Paths,
                                rows \in SeqsUpTo(PhraseUniverse, 1)}

\* Controller.__init__ on a ControllerConfig whose row_data is a str.
ConstructedFromFile ==
    /\ row_data \in Paths
    /\ loader = "LoadDataFromFile"
    /\ files \in FileSystems
    /\ Attributes

\* Every stage parameter varied, on few values each.
ConfigLoad ==
    /\ trash_words \in {<<>>, <<<<"C", "a", "b">>>>}
    /\ \E e \in EntityChoices : entities = e[1] /\ stop_entity = e[2]
    /\ my_keys \in KeyChoices
    /\ \E b \in BoundChoices :
         min_num_clusters = b[1] /\ max_num_clusters = b[2]

\* Trash words and cluster bounds varied on two values each.
ConfigLog ==
    /\ trash_words \in {<<>>, <<<<"C", "a", "b">>>>}
    /\ entities = <<>> /\ stop_entity = NoWords /\ my_keys = NoWords
    /\ \E b \in {<<1, 1>>, <<1, 2>>} :
         min_num_clusters = b[1] /\ max_num_clusters = b[2]

InitClean == ConfigClean /\ Constructed
InitLoad == ConfigLoad /\ ConstructedFromFile
InitLog == ConfigLog /\ Constructed /\ Len(row_data) < MaxPhrases
InitEntity == ConfigEntity /\ Constructed
InitKMeans == ConfigKMeans /\ Constructed
Init == (ConfigClean \/ ConfigEntity \/ ConfigKMeans) /\ Constructed

\* One stage call: its name and the arguments it was given.
Call(stage, phrases, cluster_map) ==
    [stage |-> stage, phrases |-> phrases, clusters |-> cluster_map]

\* Controller.__load_data: loader.load(), then loader.to_list().
load_data ==
    /\ pc = "load_data"
    /\ LET loaded == IF loader = "LoadDataFromFile"
                     THEN LoadDataFromFileLoad(row_data, files)
                     ELSE LoadDataAsTextLoad(row_data)
           rows == ToList(loaded)
       IN /\ data' = rows
          /\ log_queue' = Log(log_queue, <<Msg("Loaded", Len(rows))>>)
          /\ results' = Append(results, [kept |-> rows])
    /\ calls' = Append(calls, Call("load_data", None, None))
    /\ pc' = "remove_duplicates"
    /\ UNCHANGED <<config, log_window, result_window, clusters, local_clusters>>

\* Controller.__remove_duplicates
remove_duplicates ==
    /\ pc = "remove_duplicates"
    /\ LET r == RemoveDuplicatesDelete(data)
       IN /\ data' = r[1]
          /\ log_queue' = Log(log_queue,
                <<Msg("Cleaning data from phrases with duplicates...", None),
                  Msg("Was deleted", Len(r[2])),
                  Msg("After deleting duplicates left", Len(r[1]))>>)
          /\ results' = Append(results, [kept |-> r[1], removed |-> r[2]])
    /\ calls' = Append(calls, Call("remove_duplicates", data, None))
    /\ pc' = "remove_trash"
    /\ UNCHANGED <<config, log_window, result_window, clusters, local_clusters>>

\* Controller.__remove_trash
remove_trash ==
    /\ pc = "remove_trash"
    /\ LET r == RemoveTrashPhraseDelete(data, trash_words)
       IN /\ data' = r[1]
          /\ log_queue' = Log(log_queue,
                <<Msg("Deleting phrases with trash words...", None),
                  Msg("Was deleted", Len(r[2])),
                  Msg("After deleting trash words left", Len(r[1]))>>)
          /\ results' = Append(results, [kept |-> r[1], removed |-> r[2]])
    /\ calls' = Append(calls, Call("remove_trash", data, None))
    /\ pc' = "cluster_by_entity"
    /\ UNCHANGED <<config, log_window, result_window, clusters, local_clusters>>

\* Variant of Controller.__cluster_by_entity after which run_pipeline keeps
\* the list it had instead of the unclustered list of the stage: C28 tells
\* it from the code.
cluster_by_entity_keeps_list ==
    /\ pc = "cluster_by_entity"
    /\ \E ner \in NerChoices(Range(NlpCalls(data, entities, stop_entity))) :
        LET r == ClusterByEntityCluster(data, entities, stop_entity, ner)
        IN /\ data' = data
           /\ local_clusters' = r.clusters
           /\ log_queue' = Log(log_queue,
                 <<Msg("Clusterizing by named entities...", None),
                   Msg("Was created", Len(r.clusters)),
                   Msg("After clustering by named entities left", Len(r.left))>>)
           /\ results' = Append(results, r)
    /\ calls' = Append(calls, Call("cluster_by_entity", data, None))
    /\ pc' = "cluster_by_user_keys"
    /\ UNCHANGED <<config, log_window, result_window, clusters>>

\* Controller.__cluster_by_entity
cluster_by_entity ==
    /\ pc = "cluster_by_entity"
    /\ \E ner \in NerChoices(Range(NlpCalls(data, entities, stop_entity))) :
        LET r == ClusterByEntityCluster(data, entities, stop_entity, ner)
        IN /\ data' = r.left
           /\ local_clusters' = r.clusters
           /\ log_queue' = Log(log_queue,
                 <<Msg("Clusterizing by named entities...", None),
                   Msg("Was created", Len(r.clusters)),
                   Msg("After clustering by named entities left", Len(r.left))>>)
           /\ results' = Append(results, r)
    /\ calls' = Append(calls, Call("cluster_by_entity", data, None))
    /\ pc' = "cluster_by_user_keys"
    /\ UNCHANGED <<config, log_window, result_window, clusters>>

\* Variant of Controller.__cluster_by_user_keys that hands the keyword stage
\* an empty map instead of the entity stage's: C6 tells it from the code.
cluster_by_user_keys_fresh_map ==
    /\ pc = "cluster_by_user_keys"
    /\ LET r == ClusterByUserKeysCluster(data, <<>>, my_keys)
       IN /\ data' = r.left
          /\ local_clusters' = r.clusters
          /\ log_queue' = Log(log_queue,
                <<Msg("Adding user's keys to clusters...", None),
                  Msg("Was created", Len(r.clusters)),
                  Msg("After clustering by named entities left", Len(r.left))>>)
          /\ results' = Append(results, r)
    /\ calls' = Append(calls, Call("cluster_by_user_keys", data, <<>>))
    /\ pc' = "cluster_using_kmeans"
    /\ UNCHANGED <<config, log_window, result_window, clusters>>

\* Controller.__cluster_by_user_keys
cluster_by_user_keys ==
    /\ pc = "cluster_by_user_keys"
    /\ LET r == ClusterByUserKeysCluster(data, local_clusters, my_keys)
       IN /\ data' = r.left
          /\ local_clusters' = r.clusters
          /\ log_queue' = Log(log_queue,
                <<Msg("Adding user's keys to clusters...", None),
                  Msg("Was created", Len(r.clusters)),
                  Msg("After clustering by named entities left", Len(r.left))>>)
          /\ results' = Append(results, r)
    /\ calls' = Append(calls, Call("cluster_by_user_keys", data, local_clusters))
    /\ pc' = "cluster_using_kmeans"
    /\ UNCHANGED <<config, log_window, result_window, clusters>>

\* Controller.__cluster_using_kmeans
cluster_using_kmeans ==
    /\ pc = "cluster_using_kmeans"
    /\ calls' = Append(calls, Call("cluster_using_kmeans", data, local_clusters))
    /\ UNCHANGED <<config, log_window, result_window, data, local_clusters>>
    /\ IF Len(data) = 0
       THEN /\ log_queue' = Log(log_queue,
                  <<Msg("Clusterizing using kmeans...", None),
                    Msg("No phrases left for KMeans clustering.", None)>>)
            /\ results' = Append(results, [skipped |-> TRUE])
            /\ pc' = "done"
            /\ UNCHANGED clusters
       ELSE
       LET started == Log(log_queue, <<Msg("Clusterizing using kmeans...", None)>>)
       IN \E out \in KMeansOutcomes(data, local_clusters,
                                     min_num_clusters, max_num_clusters) :
            IF "raised" \in DOMAIN out
            THEN /\ log_queue' = started
                 /\ pc' = "raised"
                 /\ results' = Append(results, out)
                 /\ UNCHANGED clusters
            ELSE /\ clusters' = SomeDict(out.clusters)
                 /\ log_queue' = Log(started,
                       <<Msg("After clustering using kmeans got",
                             Len(out.clusters))>>)
                 /\ results' = Append(results, out)
                 /\ pc' = "done"

Next ==
    \/ load_data
    \/ remove_duplicates
    \/ remove_trash
    \/ cluster_by_entity
    \/ cluster_by_user_keys
    \/ cluster_using_kmeans

Spec == Init /\ [][Next]_vars
SpecClean == InitClean /\ [][Next]_vars
SpecEntity == InitEntity /\ [][Next]_vars
SpecKMeans == InitKMeans /\ [][Next]_vars
SpecLoad == InitLoad /\ [][Next]_vars

\* ---------------------------------------------------- the log consumer

\* A consumer that inserts each message above the ones already shown.
update_log_window_at_top ==
    /\ log_queue # <<>>
    /\ log_window' = <<Head(log_queue)>> \o log_window
    /\ log_queue' = Tail(log_queue)
    /\ UNCHANGED <<config, result_window, clusters, pc, data,
                   local_clusters, calls, results>>

\* A consumer that empties the queue and shows only its oldest message.
update_log_window_drops ==
    /\ log_queue # <<>>
    /\ log_window' = Append(log_window, Head(log_queue))
    /\ log_queue' = <<>>
    /\ UNCHANGED <<config, result_window, clusters, pc, data,
                   local_clusters, calls, results>>

\* ProcessWindow.update_log_window: one turn of its loop takes the oldest
\* message off the queue (get_nowait) and inserts it at the end of the
\* text widget; on an empty queue the loop ends and nothing changes.  The
\* pipeline runs in its own thread, so a turn may fall between any two
\* stages.
update_log_window ==
    /\ log_queue # <<>>
    /\ log_window' = Append(log_window, Head(log_queue))
    /\ log_queue' = Tail(log_queue)
    /\ UNCHANGED <<config, result_window, clusters, pc, data,
                   local_clusters, calls, results>>

NextLog == Next \/ update_log_window

\* update_log_window re-schedules itself with after(100, ...) at the end of
\* every call, whatever the worker thread does: the consumer keeps polling.
\* The fair runs start from the lists made of "bb" and "cab".
InitLogFair ==
    /\ InitLog
    /\ Range(row_data) \subseteq {<<"b", "b">>, <<"c", "a", "b">>}

SpecLogFair ==
    InitLogFair /\ [][NextLog]_vars /\ WF_vars(update_log_window)

SpecLog == InitLog /\ [][NextLog]_vars

\* ------------------------------------------------- the result window

\* Controller.print_result
print_result == clusters

\* The worker thread runs run_pipeline: it is alive until run_pipeline
\* returns or is left by an exception.
ThreadIsAlive == pc \notin {"done", "raised"}

\* BottomFrame.check_thread_completion with ResultWindow.
\* update_result_window: while the thread is alive the poll re-schedules
\* itself and changes nothing; once it has ended the result window is
\* built and given controller.print_result(), whose items() it iterates.
\* worker records the position of run_pipeline at the time of the read.
check_thread_completion ==
    /\ result_window = NotBuilt
    /\ ~ThreadIsAlive
    /\ result_window' =
          IF print_result = NoDict
          THEN [built |-> TRUE, worker |-> pc, raised |-> "AttributeError"]
          ELSE [built |-> TRUE, worker |-> pc, shown |-> print_result[1]]
    /\ UNCHANGED <<config, log_queue, log_window, clusters, pc, data,
                   local_clusters, calls, results>>

NextGui == Next \/ check_thread_completion

SpecGui == InitLog /\ [][NextGui]_vars

\* ------------------------------------------------ direct stage calls
\* The stage classes called on their own, on arguments run_pipeline need
\* not produce: long lists for the size filter, a cluster map that already
\* holds a keyword, an empty list for ClusterUsingKMeans.
Repeat(x, n) == [i \in 1..n |-> x]

\* How often a phrase is repeated: around both ends of the size filter.
BucketSizes ==
    {0, MinBucketExclusive, MinBucketExclusive + 1,
     MaxBucketExclusive - 1, MaxBucketExclusive, MaxBucketExclusive + 1}

\* "cab" n times, then "bb" m times, then possibly "Cab / bb".
EntityLists ==
    {Repeat(<<"c", "a", "b">>, n) \o Repeat(<<"b", "b">>, m) \o tail :
        n \in BucketSizes, m \in BucketSizes,
        tail \in {<<>>, <<<<"C", "a", "b", " ", "/", " ", "b", "b">>>>}}

\* The open and closed gates of EntityChoices, and an open gate whose stop
\* entity "s" excludes no word of the phrases.
DirectEntityChoices ==
    EntityChoices \cup { << <<"GPE">>, << <<"s">> >> >> }

\* Cluster maps handed to a stage: {}, {"cab": ["cab"]} and
\* {"<<"b", "b">>": ["bb"], "cab / bb": ["Cab / bb"]}.
IncomingMaps ==
    { <<>>,
      <<[key |-> <<"c", "a", "b">>, items |-> <<<<"c", "a", "b">>>>]>>,
      <<[key |-> <<"B", "B">>, items |-> <<<<"b", "b">>>>],
        [key |-> <<"c", "a", "b", " ", "/", " ", "b", "b">>,
         items |-> <<<<"C", "a", "b", " ", "/", " ", "b", "b">>>>]>> }

\* my_keys: [], [""], [" "], ["cab"], ["<<"b", "b">>", "cab"], ["cab", ""],
\* ["cab", "cab"].
DirectKeyChoices ==
    { <<>>, NoWords, << <<" ">> >>, <<<<"c", "a", "b">>>>, << <<"B", "B">>, <<"c", "a", "b">> >>,
      <<<<"c", "a", "b">>, <<>> >>, <<<<"c", "a", "b">>, <<"c", "a", "b">>>> }

ApplePie == <<"a", "p", "p", "l", "e", " ", "p", "i", "e">>
Banana == <<"b", "a", "n", "a", "n", "a">>
Apple == <<"a", "p", "p", "l", "e">>

DirectAttributes ==
    /\ row_data = <<>> /\ trash_words = <<>>
    /\ loader = "LoadDataAsText" /\ files = <<>>
    /\ log_queue = <<>> /\ log_window = <<>>
    /\ result_window = NotBuilt
    /\ clusters = NoDict
    /\ data = None /\ local_clusters = None
    /\ results = <<>>
    /\ pc = "direct"

\* ClusterByEntity(phrases, entities, stop_entity)
DirectEntity ==
    /\ \E e \in DirectEntityChoices : entities = e[1] /\ stop_entity = e[2]
    /\ my_keys = NoWords
    /\ min_num_clusters = 1 /\ max_num_clusters = 2
    /\ \E phrases \in EntityLists :
          calls = <<Call("cluster_by_entity", phrases, None)>>

\* ClusterByUserKeys(phrases, clusters, my_keys)
DirectKeys ==
    /\ entities = <<>> /\ stop_entity = NoWords
    /\ min_num_clusters = 1 /\ max_num_clusters = 2
    /\ \/ /\ my_keys \in DirectKeyChoices
          /\ \E phrases \in SeqsUpTo(PhraseUniverse, MaxPhrases - 1),
                incoming \in IncomingMaps :
                calls = <<Call("cluster_by_user_keys", phrases, incoming)>>
       \/ /\ my_keys = <<Apple>>
          /\ calls = <<Call("cluster_by_user_keys", <<ApplePie, Banana>>, <<>>)>>

\* ClusterUsingKMeans(phrases, clusters, min_clusters, max_clusters)
DirectKMeans ==
    /\ entities = <<>> /\ stop_entity = NoWords
    /\ my_keys = NoWords
    /\ \E b \in BoundChoices :
         min_num_clusters = b[1] /\ max_num_clusters = b[2]
    /\ \E phrases \in SeqsUpTo(PhraseUniverse, MaxPhrases - 1),
          incoming \in IncomingMaps :
          calls = <<Call("cluster_using_kmeans", phrases, incoming)>>

InitDirect == DirectAttributes /\ (DirectEntity \/ DirectKeys \/ DirectKMeans)

\* The call returns or raises.
Returned(out) ==
    /\ results' = <<out>>
    /\ pc' = "returned"
    /\ UNCHANGED <<config, log_queue, log_window, result_window, clusters,
                   data, local_clusters, calls>>

\* ClusterByEntity.cluster; the outcome also records under ents what nlp
\* returned for each phrase it was called on.
direct_cluster_by_entity ==
    /\ pc = "direct"
    /\ calls[1].stage = "cluster_by_entity"
    /\ \E ner \in NerChoices(
             Range(NlpCalls(calls[1].phrases, entities, stop_entity))) :
          Returned(ClusterByEntityCluster(calls[1].phrases, entities,
                                          stop_entity, ner)
                   @@ [ents |-> ner])

\* ClusterByUserKeys.cluster
direct_cluster_by_user_keys ==
    /\ pc = "direct"
    /\ calls[1].stage = "cluster_by_user_keys"
    /\ Returned(ClusterByUserKeysCluster(calls[1].phrases, calls[1].clusters,
                                         my_keys))

\* ClusterUsingKMeans.__init__ and ClusterUsingKMeans.cluster
direct_cluster_using_kmeans ==
    /\ pc = "direct"
    /\ calls[1].stage = "cluster_using_kmeans"
    /\ \E out \in KMeansOutcomes(calls[1].phrases, calls[1].clusters,
                                 min_num_clusters, max_num_clusters) :
          Returned(out)

NextDirect ==
    \/ direct_cluster_by_entity
    \/ direct_cluster_by_user_keys
    \/ direct_cluster_using_kmeans

SpecDirect == InitDirect /\ [][NextDirect]_vars

\* ------------------------------------------------------------ claims
StageIndex(stage) == CHOOSE i \in 1..Len(Stages) : Stages[i] = stage

\* The stage has returned (or raised), its arguments, and what it returned.
Ran(stage) == Len(results) >= StageIndex(stage)
CallOf(stage) == calls[StageIndex(stage)]
ResultOf(stage) == results[StageIndex(stage)]

\* The stage has returned a cluster map.
Clustered(stage) == Ran(stage) /\ "clusters" \in DOMAIN ResultOf(stage)

\* The entries of `after` that `before` does not hold with the same list.
WrittenKeys(before, after) ==
    {k \in DictKeys(after) :
        ~DictHas(before, k) \/ DictGet(before, k) # DictGet(after, k)}

\* C1: after run_pipeline has completed without raising, print_result
\* returns the final cluster map, which holds every cluster built by the
\* entity and keyword stages (and by the embedding stage), also when the
\* keyword stage leaves no phrase for the embedding stage.
C1_PrintResultIsFinalMap ==
    pc = "done" =>
        /\ print_result # NoDict
        /\ DictKeys(ResultOf("cluster_by_user_keys").clusters)
              \subseteq DictKeys(print_result[1])

\* C2: no phrase is silently dropped: after a completed run every phrase
\* that survived deduplication and trash filtering is in at least one
\* cluster list of the final cluster map.
C2_NoPhraseDropped ==
    pc = "done" =>
        \A p \in Range(ResultOf("remove_trash").kept) :
            print_result # NoDict /\ p \in DictValues(print_result[1])

\* Every key of `before` is a key of `after` and keeps all its phrases.
OnlyGrows(before, after) ==
    \A k \in DictKeys(before) :
        /\ DictHas(after, k)
        /\ Range(DictGet(before, k)) \subseteq Range(DictGet(after, k))

\* C3: the cluster map only grows across the keyword stage and the
\* embedding stage: every key and every phrase present when the stage
\* starts is still present when it returns.
C3_MapOnlyGrows ==
    \A stage \in {"cluster_by_user_keys", "cluster_using_kmeans"} :
        Clustered(stage) =>
            OnlyGrows(CallOf(stage).clusters, ResultOf(stage).clusters)

\* The output of a stage covers exactly the phrases it was given.
CoversInput(phrases, incoming, out) ==
    /\ Range(phrases) \subseteq Range(out.left) \cup DictValues(out.clusters)
    /\ Range(out.left) \cap DictValues(out.clusters) = {}
    /\ Range(out.left) \subseteq Range(phrases)
    /\ DictValues(out.clusters) \subseteq Range(phrases) \cup DictValues(incoming)

Disjoint(d, keys) ==
    \A k1, k2 \in keys :
        k1 # k2 => Range(DictGet(d, k1)) \cap Range(DictGet(d, k2)) = {}

\* The clusters a stage wrote are pairwise disjoint.
StageDisjoint(stage, before) ==
    Clustered(stage) =>
        Disjoint(ResultOf(stage).clusters,
                 WrittenKeys(before, ResultOf(stage).clusters))

\* C5 as claimed: in the map produced by a single stage (entity, keyword or
\* embedding), no phrase is a member of more than one cluster created by
\* that stage.
C5_NoPhraseInTwoClusters ==
    /\ StageDisjoint("cluster_by_entity", <<>>)
    /\ Ran("cluster_by_user_keys") =>
          StageDisjoint("cluster_by_user_keys",
                        CallOf("cluster_by_user_keys").clusters)
    /\ Ran("cluster_using_kmeans") =>
          StageDisjoint("cluster_using_kmeans",
                        CallOf("cluster_using_kmeans").clusters)

\* C5 as amended: no phrase is a member of more than one cluster written by
\* the embedding stage (the entity and keyword stages put a phrase into the
\* cluster of every entity or keyword it matches).
C5_EmbeddingClustersDisjoint ==
    Ran("cluster_using_kmeans") =>
        StageDisjoint("cluster_using_kmeans",
                      CallOf("cluster_using_kmeans").clusters)

\* The embedding stage wrote at least two clusters.
C5_Witness ==
    /\ Clustered("cluster_using_kmeans")
    /\ Cardinality(WrittenKeys(CallOf("cluster_using_kmeans").clusters,
                               ResultOf("cluster_using_kmeans").clusters)) >= 2

\* C6: run_pipeline executes the stages once each in the order load,
\* deduplicate, remove trash, entity clustering, keyword clustering,
\* embedding clustering; each stage receives the phrase list the previous
\* stage returned, and the keyword and embedding stages receive the cluster
\* map the previous stage returned.
C6_StagesInOrderAndThreaded ==
    /\ Len(calls) <= Len(Stages)
    /\ Len(results) = Len(calls)
    /\ pc = "done" => Len(calls) = Len(Stages)
    /\ \A i \in 1..Len(calls) : calls[i].stage = Stages[i]
    /\ Ran("remove_duplicates") =>
          CallOf("remove_duplicates").phrases = ResultOf("load_data").kept
    /\ Ran("remove_trash") =>
          CallOf("remove_trash").phrases = ResultOf("remove_duplicates").kept
    /\ Ran("cluster_by_entity") =>
          CallOf("cluster_by_entity").phrases = ResultOf("remove_trash").kept
    /\ Ran("cluster_by_user_keys") =>
          /\ CallOf("cluster_by_user_keys").phrases
                = ResultOf("cluster_by_entity").left
          /\ CallOf("cluster_by_user_keys").clusters
                = ResultOf("cluster_by_entity").clusters
    /\ Ran("cluster_using_kmeans") =>
          /\ CallOf("cluster_using_kmeans").phrases
                = ResultOf("cluster_by_user_keys").left
          /\ CallOf("cluster_using_kmeans").clusters
                = ResultOf("cluster_by_user_keys").clusters

\* A completed run in which every cleaning stage removed a phrase, the
\* entity stage built a cluster and the keyword stage added to the map.
C6_Witness ==
    /\ pc = "done"
    /\ ResultOf("remove_duplicates").removed # <<>>
    /\ ResultOf("cluster_by_entity").clusters # <<>>
    /\ ResultOf("cluster_by_user_keys").clusters
          # ResultOf("cluster_by_entity").clusters

\* The elements of seq at the positions in idx, in order.
RECURSIVE SelectIdx(_, _, _)
SelectIdx(seq, idx, i) ==
    IF i > Len(seq) THEN <<>>
    ELSE (IF i \in idx THEN <<seq[i]>> ELSE <<>>) \o SelectIdx(seq, idx, i + 1)

\* The positions of phrases whose signature no earlier position has.
FirstOccurrences(phrases) ==
    {i \in 1..Len(phrases) :
        \A j \in 1..(i - 1) : Signature(phrases[j]) # Signature(phrases[i])}

\* C7: RemoveDuplicates.delete(P) returns (kept, removed): disjoint
\* subsequences of P that together hold every position of P once; no two
\* kept phrases have the same normalized signature; a kept phrase is the
\* first of P with its signature, so every removed phrase has an earlier
\* kept phrase with the same signature.
C7_DedupKeepsFirstOfEachSignature ==
    Ran("remove_duplicates") =>
        LET P == CallOf("remove_duplicates").phrases
            out == ResultOf("remove_duplicates")
            first == FirstOccurrences(P)
        IN /\ out.kept = SelectIdx(P, first, 1)
           /\ out.removed = SelectIdx(P, (1..Len(P)) \ first, 1)
           /\ \A i, j \in 1..Len(out.kept) :
                 i # j => Signature(out.kept[i]) # Signature(out.kept[j])
           /\ \A r \in Range(out.removed) :
                 \E k \in Range(out.kept) : Signature(k) = Signature(r)

\* A phrase was removed although it differs from the kept phrase it
\* duplicates, and two phrases were kept.
C7_Witness ==
    /\ Ran("remove_duplicates")
    /\ Len(ResultOf("remove_duplicates").kept) >= 2
    /\ \E r \in Range(ResultOf("remove_duplicates").removed) :
          r \notin Range(ResultOf("remove_duplicates").kept)

\* C8: with at least one non-blank trash entry, RemoveTrashPhrase.delete
\* moves a phrase to removed iff it contains a non-blank trash entry as a
\* case-sensitive substring; blank entries have no effect; kept and removed
\* keep the order of the input.
C8_TrashRemovesIffNonBlankMatch ==
    (Ran("remove_trash") /\ NonBlank(trash_words) # <<>>) =>
        LET P == CallOf("remove_trash").phrases
            hit == {i \in 1..Len(P) : HasTrash(P[i], NonBlank(trash_words))}
        IN /\ ResultOf("remove_trash").removed = SelectIdx(P, hit, 1)
           /\ ResultOf("remove_trash").kept
                 = SelectIdx(P, (1..Len(P)) \ hit, 1)

\* C9: when the trash list is empty or every entry is blank after trimming,
\* RemoveTrashPhrase.delete(P) returns (P, []).
C9_BlankTrashIsNoOp ==
    (Ran("remove_trash")
       /\ \A i \in 1..Len(trash_words) : ~StripTruthy(trash_words[i])) =>
        /\ ResultOf("remove_trash").kept = CallOf("remove_trash").phrases
        /\ ResultOf("remove_trash").removed = <<>>

\* The only trash entry is a blank that occurs in a phrase of the input.
C9_Witness ==
    /\ Ran("remove_trash")
    /\ Len(trash_words) = 1
    /\ ~StripTruthy(trash_words[1])
    /\ \E p \in Range(CallOf("remove_trash").phrases) :
          Contains(p, trash_words[1])

CallsOf(stage) == {i \in 1..Len(results) : calls[i].stage = stage}

\* The entity texts that collected a number of phrases in the given set.
BucketsOfSize(r, sizes) ==
    {r.entity_cluster[j].key :
        j \in {j \in 1..Len(r.entity_cluster) :
                  Len(r.entity_cluster[j].items) \in sizes}}

C12_KeysGateIsNoOp ==
    \A i \in CallsOf("cluster_by_user_keys") :
        (\A k \in 1..Len(my_keys) : ~StripTruthy(my_keys[k])) =>
            /\ results[i].clusters = calls[i].clusters
            /\ results[i].left = calls[i].phrases

\* The only key is blank (it is a substring of every phrase), and the stage
\* was handed phrases and a map that holds clusters.
C12_Witness ==
    \E i \in CallsOf("cluster_by_user_keys") :
        /\ Len(my_keys) = 1
        /\ ~StripTruthy(my_keys[1])
        /\ calls[i].phrases # <<>>
        /\ calls[i].clusters # <<>>
        /\ \A p \in Range(calls[i].phrases) : Contains(Lower(p), Lower(my_keys[1]))

\* lowercase(k) is a substring of lowercase(p).
KeyMatches(k, p) == Contains(Lower(p), Lower(k))

\* The phrases the keyword stage appends under key k: each matching phrase,
\* in list order, once for every occurrence of k in the keyword list.
AppendedUnder(k, phrases, keys) ==
    Concat([n \in 1..Len(phrases) |->
               IF KeyMatches(k, phrases[n])
               THEN Repeat(phrases[n], CountOf(keys, k))
               ELSE <<>>])

\* The rule of the keyword stage on one call.
C13_Rule ==
    \A i \in CallsOf("cluster_by_user_keys") :
        (\E k \in 1..Len(my_keys) : StripTruthy(my_keys[k])) =>
            LET P == calls[i].phrases
                before == calls[i].clusters
                after == results[i].clusters
                matched == {k \in Range(my_keys) :
                               \E p \in Range(P) : KeyMatches(k, p)}
            IN /\ DictKeys(after) = DictKeys(before) \cup matched
               /\ \A k \in DictKeys(after) :
                     DictGet(after, k) =
                        (IF DictHas(before, k) THEN DictGet(before, k) ELSE <<>>)
                        \o (IF k \in Range(my_keys)
                            THEN AppendedUnder(k, P, my_keys) ELSE <<>>)
               /\ \A p \in Range(P) :
                     p \in Range(results[i].left) <=>
                        /\ \A k \in Range(my_keys) : ~KeyMatches(k, p)
                        /\ p \notin DictValues(before)

C13_Example ==
    \A i \in CallsOf("cluster_by_user_keys") :
        (calls[i].phrases = <<ApplePie, Banana>> /\ my_keys = <<Apple>>
           /\ calls[i].clusters = <<>>) =>
            /\ results[i].clusters = <<[key |-> Apple, items |-> <<ApplePie>>]>>
            /\ results[i].left = <<Banana>>

C14_EmptyListIsNoOp ==
    \A i \in CallsOf("cluster_using_kmeans") :
        (calls[i].phrases = <<>>
           /\ ~BoundsRejected(min_num_clusters, max_num_clusters)
           /\ "skipped" \notin DOMAIN results[i]) =>
            /\ "raised" \notin DOMAIN results[i]
            /\ results[i].clusters = calls[i].clusters
            /\ results[i].fits = <<>>
            /\ results[i].labels = <<>>

\* ClusterUsingKMeans was called with valid bounds on an empty list and a
\* map that holds clusters.
C14_Witness ==
    \E i \in CallsOf("cluster_using_kmeans") :
        /\ calls[i].phrases = <<>>
        /\ calls[i].clusters # <<>>
        /\ min_num_clusters < max_num_clusters
        /\ "clusters" \in DOMAIN results[i]

\* C15: for every non-empty phrase list and all bounds 1 <= min <= max
\* (min = max included) that do not exceed the number of phrases, the
\* embedding stage fits K-means once for each K in min..max, selects
\* K = min + i for the first index i at which the gradient of the inertias
\* is maximal, min <= K <= max, and completes with that K.
C15_KSelection ==
    \A i \in CallsOf("cluster_using_kmeans") :
        (calls[i].phrases # <<>>
           /\ 1 <= min_num_clusters
           /\ min_num_clusters <= max_num_clusters
           /\ max_num_clusters <= Len(calls[i].phrases)) =>
            /\ "raised" \notin DOMAIN results[i]
            /\ results[i].fits = Candidates(min_num_clusters, max_num_clusters)
            /\ LET gradient == Gradient2(results[i].inertias)
                   first == CHOOSE n \in 1..Len(gradient) :
                               /\ \A m \in 1..Len(gradient) :
                                     gradient[m] <= gradient[n]
                               /\ \A m \in 1..(n - 1) :
                                     gradient[m] < gradient[n]
               IN results[i].optimal_k = min_num_clusters + first - 1
            /\ min_num_clusters <= results[i].optimal_k
            /\ results[i].optimal_k <= max_num_clusters

\* The phrases that got the label, in list order.
LabelGroup(phrases, labels, label) ==
    SelectIdx(phrases, {n \in 1..Len(phrases) : labels[n] = label}, 1)

\* The names derived for the clusters of one fit_predict.
DerivedNames(phrases, labels) ==
    {ClusterName(LabelGroup(phrases, labels, l)) : l \in Range(labels)}

\* The embedding stage clustered the phrases of call i.
Fitted(i) == "labels" \in DOMAIN results[i] /\ calls[i].phrases # <<>>

\* C16: the merge of the embedding stage is last-writer-wins: when a
\* derived cluster name equals a key already in the map, the key's list is
\* replaced by the phrase list of a new cluster of that name (no union, no
\* append); keys whose names do not collide keep their lists.
C16_MergeIsLastWriterWins ==
    \A i \in CallsOf("cluster_using_kmeans") :
        Fitted(i) =>
            LET P == calls[i].phrases
                before == calls[i].clusters
                after == results[i].clusters
                labels == results[i].labels
                names == DerivedNames(P, labels)
            IN /\ DictKeys(after) = DictKeys(before) \cup names
               /\ \A k \in DictKeys(before) \ names :
                     DictGet(after, k) = DictGet(before, k)
               /\ \A k \in names :
                     \E l \in Range(labels) :
                        /\ ClusterName(LabelGroup(P, labels, l)) = k
                        /\ DictGet(after, k) = LabelGroup(P, labels, l)

\* A derived name was already a key, and the stage replaced its list by a
\* list that holds none of its phrases.
C16_Witness ==
    \E i \in CallsOf("cluster_using_kmeans") :
        /\ Fitted(i)
        /\ \E k \in DictKeys(calls[i].clusters) :
              /\ k \in DerivedNames(calls[i].phrases, results[i].labels)
              /\ Range(DictGet(calls[i].clusters, k))
                    \cap Range(DictGet(results[i].clusters, k)) = {}

\* C17: malformed cluster bounds (< 1 or min > max) cause an error when the
\* Controller is constructed, so that with such bounds no stage has
\* executed and no log message has been emitted.
C17_ConfigErrorsFailFast ==
    BoundsRejected(min_num_clusters, max_num_clusters) =>
        calls = <<>> /\ log_queue = <<>>

\* C18: a failure raised inside a stage is caught at the stage boundary:
\* the remaining stages run and run_pipeline returns normally, with the
\* clusters built so far retrievable.
C18_StageFailureIsCaught ==
    (\E i \in 1..Len(results) : "raised" \in DOMAIN results[i]) =>
        pc \notin {"raised"} /\ print_result # NoDict

\* The file named by the configuration does not exist.
MissingFile == loader = "LoadDataFromFile" /\ row_data \notin DOMAIN files

\* What the stage returned is what it returns on an empty list: nothing
\* kept, nothing removed, no cluster, nothing left, no embedding run.
EmptyResult(i) ==
    LET r == results[i]
    IN  /\ "raised" \notin DOMAIN r
        /\ "kept" \in DOMAIN r => r.kept = <<>>
        /\ "removed" \in DOMAIN r => r.removed = <<>>
        /\ "left" \in DOMAIN r => r.clusters = <<>> /\ r.left = <<>>
        /\ calls[i].stage = "cluster_using_kmeans" =>
              "skipped" \in DOMAIN r /\ clusters = NoDict

\* C19: when the phrase source is a path to a file that does not exist, or
\* the loaded data cannot be converted to a flat list, the load stage
\* yields an empty list instead of raising: "Loaded 0 phrases." is logged,
\* every later stage is a no-op on the empty list, no stage raises, and
\* the pipeline runs on until run_pipeline returns.
C19_MissingFileYieldsEmptyRun ==
    /\ ToList(NotLoaded) = <<>>
    /\ ToList(DataFrame(<<>>)) = <<>>
    /\ ToList([kind |-> "str", columns |-> <<>>, rows |-> <<>>]) = <<>>
    /\ MissingFile =>
          /\ pc # "raised"
          /\ Ran("load_data") => log_queue[1] = Msg("Loaded", 0)
          /\ \A i \in 1..Len(results) :
                calls[i].stage = Stages[i] /\ EmptyResult(i)
          /\ pc # "done" => ENABLED Next

C19_Witness ==
    /\ MissingFile
    /\ pc = "done"
    /\ Len(results) = Len(Stages)
    /\ trash_words # <<>>
    /\ entities # <<>>
    /\ my_keys # NoWords
    /\ BoundsRejected(min_num_clusters, max_num_clusters)

\* The texts of the messages of a log, in their order.
Texts(messages) == [i \in 1..Len(messages) |-> messages[i].text]

\* The messages of the i-th stage that ran: its start message, then its
\* count messages (the embedding stage logs no count when it raises).
StageTexts(i) ==
    LET stage == Stages[i]
    IN  IF stage = "load_data" THEN <<"Loaded">>
        ELSE IF stage = "remove_duplicates"
        THEN <<"Cleaning data from phrases with duplicates...",
               "Was deleted", "After deleting duplicates left">>
        ELSE IF stage = "remove_trash"
        THEN <<"Deleting phrases with trash words...",
               "Was deleted", "After deleting trash words left">>
        ELSE IF stage = "cluster_by_entity"
        THEN <<"Clusterizing by named entities...",
               "Was created", "After clustering by named entities left">>
        ELSE IF stage = "cluster_by_user_keys"
        THEN <<"Adding user's keys to clusters...",
               "Was created", "After clustering by named entities left">>
        ELSE IF "skipped" \in DOMAIN results[i]
        THEN <<"Clusterizing using kmeans...",
               "No phrases left for KMeans clustering.">>
        ELSE IF "raised" \in DOMAIN results[i]
        THEN <<"Clusterizing using kmeans...">>
        ELSE <<"Clusterizing using kmeans...",
               "After clustering using kmeans got">>

RECURSIVE TextsUpTo(_)
TextsUpTo(n) == IF n = 0 THEN <<>> ELSE TextsUpTo(n - 1) \o StageTexts(n)

\* C20: the messages put on log_queue during one run_pipeline are in stage
\* execution order (load, dedup, trash, entity, keyword, embedding; within
\* a stage the start message precedes its count messages), and the
\* consumer that drains the queue shows them in exactly that order: what
\* is shown followed by what is still queued is the sequence of the
\* messages of the stages that ran.
C20_LogOrder ==
    /\ \A i \in 1..Len(calls) : calls[i].stage = Stages[i]
    /\ Texts(log_window \o log_queue) = TextsUpTo(Len(results))

C20_Witness ==
    /\ pc = "done"
    /\ "labels" \in DOMAIN results[Len(Stages)]
    /\ log_queue = <<>>
    /\ Texts(log_window) = TextsUpTo(Len(Stages))
    /\ Len(log_window) > Len(Stages)

\* The phrases of the entity_cluster buckets that passed the size filter:
\* the phrases that were in a kept bucket before the back-fill pass.
Seeded(r) ==
    UNION {Range(DictGet(r.entity_cluster, e)) : e \in DictKeys(r.clusters)}

\* The phrases the back-fill pass added to bucket e.
BackFilled(r, e) ==
    Range(DictGet(r.clusters, e)) \ Range(DictGet(r.entity_cluster, e))

\* C21: in the result of ClusterByEntity.cluster, every input phrase that
\* was in no kept bucket after the size filter is a member of every kept
\* bucket whose key, lowercased, is a substring of the lowercased phrase
\* (of each such bucket when there are several), and the back-fill adds a
\* phrase to no bucket whose key text it does not contain, nor a phrase
\* that was in a kept bucket; what a bucket held before stays in front.
C21_EntityBackFill ==
    \A i \in CallsOf("cluster_by_entity") :
        LET r == results[i]
            P == Range(calls[i].phrases)
        IN \A e \in DictKeys(r.clusters) :
              /\ DictHas(r.entity_cluster, e)
              /\ \A p \in P \ Seeded(r) :
                    KeyMatches(e, p) => p \in Range(DictGet(r.clusters, e))
              /\ \A p \in BackFilled(r, e) :
                    p \in P \ Seeded(r) /\ KeyMatches(e, p)
              /\ SubSeq(DictGet(r.clusters, e), 1,
                        Len(DictGet(r.entity_cluster, e)))
                    = DictGet(r.entity_cluster, e)

\* One phrase was back-filled into two buckets, into one of them by a
\* match that differs in case.
C21_Witness ==
    \E i \in CallsOf("cluster_by_entity") :
        LET r == results[i]
        IN /\ \E p \in Range(calls[i].phrases) :
                 \E e1, e2 \in DictKeys(r.clusters) :
                     /\ e1 # e2
                     /\ p \in BackFilled(r, e1) /\ p \in BackFilled(r, e2)
                     /\ ~Contains(p, e1)

\* The entities nlp detected in the phrases of a call that are allowed to
\* seed a bucket: label in the allowed set, lowercased text not an entry of
\* the stop list.  Each is a pair of the phrase and the entity.
Seeds(r, allowed, stop) ==
    LET detected ==
            UNION {{<<p, r.ents[p][n]>> : n \in 1..Len(r.ents[p])} :
                      p \in DOMAIN r.ents}
    IN {d \in detected :
           d[2].label \in Range(allowed)
           /\ Lower(d[2].text) \notin Range(stop)}

\* C22: a detected entity seeds a bucket only if its label is in the
\* allowed label set and its lowercased surface text is not an entry of
\* the stop-entity list; the bucket key is the entity's exact surface text
\* (case variants of one entity are distinct buckets), and no key of the
\* returned map has a lowercased text that is in the stop-entity list.
C22_EntityBucketing ==
    \A i \in CallsOf("cluster_by_entity") :
        LET r == results[i]
            seeds == Seeds(r, entities, stop_entity)
        IN /\ DictKeys(r.entity_cluster) = {d[2].text : d \in seeds}
           /\ \A e \in DictKeys(r.entity_cluster) :
                 Range(DictGet(r.entity_cluster, e))
                    = {d[1] : d \in {t \in seeds : t[2].text = e}}
           /\ \A e \in DictKeys(r.clusters) :
                 Lower(e) \notin Range(stop_entity)

\* "Cab" and "cab" seeded two buckets, an entity on the stop list was
\* detected and seeded none, and so did an entity with a label that is
\* not allowed.
C22_Witness ==
    \E i \in CallsOf("cluster_by_entity") :
        LET r == results[i]
            detected == UNION {Range(r.ents[p]) : p \in DOMAIN r.ents}
        IN /\ \E e1, e2 \in DictKeys(r.entity_cluster) :
                 e1 # e2 /\ Lower(e1) = Lower(e2)
           /\ \E ent \in detected :
                 ent.label \in Range(entities)
                 /\ Lower(ent.text) \in Range(stop_entity)
           /\ \E ent \in detected : ent.label \notin Range(entities)
           /\ r.clusters # <<>>

\* C23: every cluster list in the map ClusterByEntity.cluster returns, that
\* is after the back-fill pass, has at least 2 and fewer than 40 phrases.
C23_EntityClusterCardinality ==
    \A i \in CallsOf("cluster_by_entity") :
        \A j \in 1..Len(results[i].clusters) :
            /\ MinBucketExclusive < Len(results[i].clusters[j].items)
            /\ Len(results[i].clusters[j].items) < MaxBucketExclusive

\* C24: when the user-keyword list mixes non-blank and blank entries,
\* ClusterByUserKeys.cluster creates no cluster keyed by a blank entry and
\* a blank entry causes no phrase to be clustered: a phrase that matches
\* no non-blank keyword and was in no cluster stays unclustered.
C24_BlankKeysAreFiltered ==
    \A i \in CallsOf("cluster_by_user_keys") :
        LET non_blank == {k \in Range(my_keys) : StripTruthy(k)}
            before == calls[i].clusters
        IN (non_blank # {} /\ non_blank # Range(my_keys)) =>
              /\ \A k \in DictKeys(results[i].clusters) \ DictKeys(before) :
                    StripTruthy(k)
              /\ \A p \in Range(calls[i].phrases) :
                    ((\A k \in non_blank : ~KeyMatches(k, p))
                        /\ p \notin DictValues(before))
                    => p \in Range(results[i].left)

\* C25: the consumer reads print_result only in a state where the worker
\* thread running run_pipeline is no longer alive, and once the worker has
\* ended, normally or by an error, the consumer obtains a cluster map that
\* it can iterate.
C25_CompletionProtocol ==
    result_window.built =>
        /\ result_window.worker \in {"done", "raised"}
        /\ "shown" \in DOMAIN result_window

\* The messages pushed so far: those delivered, then those still queued.
Pushed == log_window \o log_queue

\* One step of the worker or of the consumer, seen from the queue: what
\* was pushed stays as it is and in its order, a push adds at the end, and
\* a delivery moves exactly the oldest queued message to the window.
DeliveryStep ==
    /\ Len(Pushed') >= Len(Pushed)
    /\ SubSeq(Pushed', 1, Len(Pushed)) = Pushed
    /\ log_window' # log_window =>
          /\ Pushed' = Pushed
          /\ log_window' = Append(log_window, Head(log_queue))
    /\ Len(log_window') >= Len(log_window)

\* No run pushes more messages than this: three for each stage.
MaxMessages == 3 * Len(Stages)

\* C26: with the worker pushing and the consumer draining in any
\* interleaving, every pushed message is delivered exactly once (none
\* lost, none duplicated, in the order of the pushes), and under fair
\* polling every pushed message is eventually delivered, also those
\* pushed just before the worker thread ends.
C26_LogDelivery ==
    /\ [][DeliveryStep]_vars
    /\ \A n \in 1..MaxMessages :
          (Len(Pushed) >= n) ~> (Len(log_window) >= n)
    /\ <>[](log_queue = <<>>)

\* The worker thread was ended by an error in the embedding stage and the
\* consumer has delivered every message, the last one included.
C26_Witness ==
    /\ pc = "raised"
    /\ log_queue = <<>>
    /\ log_window # <<>>
    /\ log_window[Len(log_window)].text = "Clusterizing using kmeans..."

\* The count of the n-th message pushed in the run.
Count(n) == Pushed[n].n

\* Loaded = dedup deleted + dedup left, and dedup left = trash deleted +
\* trash left (the messages are pushed in the order of C20: one for the
\* load, then a start message and two counts for each stage).
CleaningCountsAddUp ==
    /\ Ran("remove_duplicates") => Count(1) = Count(3) + Count(4)
    /\ Ran("remove_trash") => Count(4) = Count(6) + Count(7)

\* The keys a stage added to the map it was given.
CreatedBy(i) ==
    DictKeys(results[i].clusters)
        \ (IF calls[i].clusters = None THEN {}
            ELSE DictKeys(calls[i].clusters))

\* The "Was created" count of the entity stage and of the keyword stage is
\* the number of clusters that stage created.
CreatedCountsAreOwn ==
    /\ Ran("cluster_by_entity") =>
          Count(9) = Cardinality(CreatedBy(StageIndex("cluster_by_entity")))
    /\ Ran("cluster_by_user_keys") =>
          Count(12) = Cardinality(CreatedBy(StageIndex("cluster_by_user_keys")))

\* C27: in one run the count logged as loaded equals the dedup "deleted"
\* count plus the dedup "left" count, the dedup "left" count equals the
\* trash "deleted" count plus the trash "left" count, and the "Was
\* created" count logged by each clustering stage equals the number of
\* clusters created by that stage.
C27_LoggedCountsConsistent == CleaningCountsAddUp /\ CreatedCountsAreOwn

\* a is b with some elements taken out, the others in their order.
RECURSIVE IsSubsequence(_, _)
IsSubsequence(a, b) ==
    IF Len(a) = 0 THEN TRUE
    ELSE IF Len(b) = 0 THEN FALSE
    ELSE IF Head(a) = Head(b) THEN IsSubsequence(Tail(a), Tail(b))
    ELSE IsSubsequence(a, Tail(b))

\* C28: the unclustered list the entity stage returns is a subsequence of
\* the list it received, the one the keyword stage returns is a
\* subsequence of the entity stage's; a phrase placed in a cluster by an
\* earlier stage is never in the list handed to a later stage; and every
\* phrase of a cluster list, the final ones included, is one of the
\* loaded phrases, character for character.
C28_PoolShrinks ==
    /\ Ran("cluster_by_entity") =>
          IsSubsequence(ResultOf("cluster_by_entity").left,
                        CallOf("cluster_by_entity").phrases)
    /\ Ran("cluster_by_user_keys") =>
          /\ CallOf("cluster_by_user_keys").phrases
                = ResultOf("cluster_by_entity").left
          /\ IsSubsequence(ResultOf("cluster_by_user_keys").left,
                           ResultOf("cluster_by_entity").left)
          /\ Range(CallOf("cluster_by_user_keys").phrases)
                \cap DictValues(ResultOf("cluster_by_entity").clusters) = {}
    /\ Ran("cluster_using_kmeans") =>
          /\ CallOf("cluster_using_kmeans").phrases
                = ResultOf("cluster_by_user_keys").left
          /\ Range(CallOf("cluster_using_kmeans").phrases)
                \cap DictValues(ResultOf("cluster_by_user_keys").clusters) = {}
    /\ \A i \in 1..Len(results) :
          "clusters" \in DOMAIN results[i] =>
              DictValues(results[i].clusters)
                  \subseteq Range(ResultOf("load_data").kept)
    /\ print_result # NoDict =>
          DictValues(print_result[1]) \subseteq Range(ResultOf("load_data").kept)

\* The entity stage clustered some phrases and left others, and the
\* keyword stage clustered one of those.
C28_Witness ==
    /\ Ran("cluster_using_kmeans")
    /\ Len(ResultOf("cluster_by_entity").left)
          < Len(CallOf("cluster_by_entity").phrases)
    /\ Len(ResultOf("cluster_by_entity").left) > 0
    /\ Len(ResultOf("cluster_by_user_keys").left)
          < Len(ResultOf("cluster_by_entity").left)

\* The words a cluster name is made of.
TopWords(phrases_in_cluster) ==
    LET words == AllWords(phrases_in_cluster)
    IN MostCommon(words, Range(words), TopWordCount)

\* At most three words, each a lowercased non-stopword word of the member
\* phrases, none less frequent than a word left out, the more frequent
\* first and, among equally frequent words, the one that occurs first.
NamedByMostFrequent(phrases_in_cluster) ==
    LET words == AllWords(phrases_in_cluster)
        top == TopWords(phrases_in_cluster)
        Before(w, v) ==
            \/ CountOf(words, w) > CountOf(words, v)
            \/ /\ CountOf(words, w) = CountOf(words, v)
               /\ FirstIndex(words, w) < FirstIndex(words, v)
    IN /\ Len(top) <= 3
       /\ Len(top) = Cardinality(Range(top))
       /\ Range(top) \subseteq Range(words)
       /\ Len(top) < 3 => Range(top) = Range(words)
       /\ \A m, n \in 1..Len(top) : m < n => Before(top[m], top[n])
       /\ \A w \in Range(top), v \in Range(words) \ Range(top) : Before(w, v)

\* C29: each cluster of the embedding stage is stored under the at most
\* three most frequent non-stopword words of its member phrases
\* (lowercased, ties by first occurrence) joined by " / "; two distinct
\* embedding clusters of one run are stored under distinct names, so the
\* stage adds as many entries as the selected K.
C29_EmbeddingClusterNaming ==
    \A i \in CallsOf("cluster_using_kmeans") :
        Fitted(i) =>
            LET P == calls[i].phrases
                L == results[i].labels
                Group(l) == LabelGroup(P, L, l)
                after == results[i].clusters
            IN /\ \A l \in Range(L) :
                     /\ NamedByMostFrequent(Group(l))
                     /\ DictHas(after,
                                Join(<<" ", "/", " ">>, TopWords(Group(l))))
               /\ \A l1, l2 \in Range(L) :
                     l1 # l2 => TopWords(Group(l1)) # TopWords(Group(l2))
               /\ Cardinality(DictKeys(after) \ DictKeys(calls[i].clusters))
                     = results[i].optimal_k

\* No element occurs twice in the list.
NoRepeat(list) == Cardinality(Range(list)) = Len(list)

\* C30: for a phrase list without repeated phrases, as the deduplication
\* stage delivers it, no cluster list of the map ClusterByEntity.cluster
\* returns holds the same phrase more than once, and the size the filter
\* tests is the number of distinct phrases in which the entity was
\* detected.
C30_EntityListsHaveNoRepeats ==
    (Ran("cluster_by_entity")
        /\ NoRepeat(CallOf("cluster_by_entity").phrases)) =>
        LET r == ResultOf("cluster_by_entity")
        IN /\ \A j \in 1..Len(r.clusters) : NoRepeat(r.clusters[j].items)
           /\ \A j \in 1..Len(r.entity_cluster) :
                 NoRepeat(r.entity_cluster[j].items)

====
